---- MODULE Spec2Model ----
(***************************************************************************)
(* Model of the chat client of AdmGPT: the ChatArea component              *)
(* (components/ChatArea.tsx), its streaming handler handleSend, the        *)
(* cancel handler handleStop and the input controls.                       *)
(*                                                                         *)
(* A turn is one invocation of handleSend.  The response of a turn is a    *)
(* byte stream; it is modelled as a sequence of symbols, two per frame:    *)
(*   H(f)  "data: " followed by the first part of the payload of f,        *)
(*   T(f)  the rest of the payload of f and the line feed that ends it.    *)
(* The transport hands the stream to reader.read() in chunks that may end  *)
(* at any symbol.  Texts are sequences of characters.                      *)
(*                                                                         *)
(* State updates queued with setMessages(prev => ...) are applied in the   *)
(* order of the calls, each with the values of the call.                   *)
(***************************************************************************)
EXTENDS Integers, Sequences, FiniteSets, TLC

\* ------------------------------------------------------------------ bounds
MaxTurns == 2       \* invocations of handleSend
MaxTokens == 2      \* token frames the server emits, all responses together
MaxOther == 1       \* other frames the server emits, all responses together
MaxSubmits == 2     \* submit requests one AuthPrompt sends
MaxClicks == 2      \* windows opened under the name 'mcp-auth-popup'
MaxSaves == 2       \* saves of a tool page of the settings, and of the general page
MaxSelects == 2     \* conversations the user selects in the sidebar
MaxDeletes == 1     \* delete requests the user confirms
MaxTitles == 1      \* turns of the sidebar model, each ended by a title frame
MaxLogins == 2      \* login requests

Turns == 1..MaxTurns

\* ------------------------------------------------------------- data types
NoAuth == [type |-> "none", instructions |-> <<>>, target_env_var |-> ""]

Challenge == [type |-> "browser", instructions |-> <<"i">>, target_env_var |-> "KEY"]

NoEntryAuth == [server_name |-> "", type |-> "none", instructions |-> <<>>, target_env_var |-> ""]

Frame(t, c) == [type |-> t, content |-> c, server_name |-> "", auth_config |-> NoAuth]

AuthFrame == [type |-> "auth_required", content |-> <<>>, server_name |-> "srv", auth_config |-> Challenge]

DoneFrame == Frame("[DONE]", <<>>)

Frames ==
    { Frame("token", <<"a">>), Frame("token", <<"b">>), Frame("thought", <<"t">>),
      Frame("question", <<"q">>), Frame("intent", <<"n">>), Frame("plan", <<"p">>),
      Frame("error", <<"e">>), Frame("title", <<"T">>), AuthFrame, DoneFrame }

H(f) == [s |-> "H", f |-> f]

T(f) == [s |-> "T", f |-> f]

\* the bytes of one frame on the wire: `data: <payload>\n`
Encode(f) == << H(f), T(f) >>

Msg(role, content, type, auth, turn) ==
    [role |-> role, content |-> content, type |-> type, auth_config |-> auth, turn |-> turn]

Sorry == <<"S">>

InputValues == { <<>>, <<" ">>, <<"h">> }

\* textarea values when the user has two requests to make
Utterances == InputValues \cup { <<"g">> }

\* the tool providers (MCPServerInfo.name)
Providers == { "srv", "git" }

\* AuthPromptProps.authType
AuthKinds == { "browser", "oauth" }

\* the credential key an auth_required frame of a provider names (target_env_var)
KeyOf(p) == IF p = "srv" THEN "KEY" ELSE "PAT"

\* MCPServerInfo.required_env of a provider
RequiredEnv(p) == IF p = "srv" THEN { "KEY", "ORG" } ELSE { "PAT" }

\* an auth_required frame for provider p with a challenge of kind k
AuthFrameOf(p, k) ==
    [type |-> "auth_required", content |-> <<>>, server_name |-> p,
     auth_config |-> [type |-> k, instructions |-> <<"i">>, target_env_var |-> KeyOf(p)]]

\* useState('') / useState(false) / useState(false) / useState(null) of AuthPrompt;
\* handlers: the windows whose messageHandler is registered; req: the arguments of
\* the awaited user.submitMCPAuth; submits, by: how many requests it sent, what
\* set isSuccess; sentAt: how many writes the store had committed when req left
NoRequest == [server_name |-> "", token |-> <<>>, token_name |-> ""]

NoError == "null"

SaveFailed == "Failed to save token. Please try again."

InitialPrompt ==
    [token |-> <<>>, isSubmitting |-> FALSE, isSuccess |-> FALSE, error |-> NoError,
     handlers |-> {}, req |-> NoRequest, submits |-> 0, by |-> "none", sentAt |-> 0]

\* what the user types into the password input of an AuthPrompt
TokenValues == { <<>>, <<"k", " ">> }

\* no window named 'mcp-auth-popup' has been opened
NoPopup == [gen |-> 0, open |-> FALSE, provider |-> ""]

\* a credential key that holds no value
NoValue == <<>>

EmptyStore == [p \in Providers |-> [k \in RequiredEnv(p) |-> NoValue]]

\* useState({}) of PreferencesModal.userConfigs: no provider has a configuration
NoConfigs == << >>

\* what the user types into a credential input of a tool page
EnvValues == { <<"m">> }

\* what the settings load shows in place of a stored value
Mask == <<"*">>

\* no user.updateUserMCPConfig is awaited
NoSave == [server_name |-> "", env_vars |-> << >>]

\* PreferencesModal with isOpen false, and the state its ToolPage starts from;
\* fetching: fetchData is awaiting; req: the argument of the awaited
\* user.updateUserMCPConfig; typed: the keys whose input the user has edited;
\* saves: the saves so far; sentAt: the writes committed when req left; saved: per
\* server, the map of its last successful save since the modal was opened
ClosedModal ==
    [isOpen |-> FALSE, loading |-> TRUE, fetching |-> FALSE, userConfigs |-> NoConfigs,
     activePage |-> "general", envVars |-> << >>, saving |-> FALSE, req |-> NoSave,
     typed |-> {}, saves |-> 0, sentAt |-> 0, saved |-> << >>]

\* App: token is null
NoToken == ""

\* ConversationSummary.updated_at is absent; a timestamp new Date() cannot parse
Absent == 0

Unparseable == -1

\* a ConversationSummary as GET /conversations returns it
Summary(id, created, updated) ==
    [id |-> id, title |-> <<"x">>, created_at |-> created, updated_at |-> updated]

\* App.messages: the list built from the detail of conversation c, the greeting of
\* the new conversation c, or the empty list
Shown(kind, c) == [kind |-> kind, id |-> c]

\* SIZES of PreferencesModal: the value of each option of the font size select
SIZES ==
    { [id |-> "text-xs", name |-> "Extra Small"], [id |-> "text-sm", name |-> "Small"],
      [id |-> "text-base", name |-> "Medium (Default)"], [id |-> "text-lg", name |-> "Large"],
      [id |-> "text-xl", name |-> "Extra Large"] }

\* the useState initial values of App for a user whose token is in localStorage,
\* the root font size applyPreferences set from them, the state GeneralPage starts
\* from, and whether the React root is mounted
InitialApp ==
    [token |-> "ann", conversations |-> <<>>, currentConversationId |-> 0,
     messages |-> Shown("empty", 0), isLoadingHistory |-> FALSE,
     fontSize |-> "Medium", rootFontSize |-> "16px",
     general |-> [fontSize |-> "Medium", saving |-> FALSE], mounted |-> TRUE]

\* no POST /login is awaited
NoLogin == [user_name |-> "", Authorization |-> ""]

\* services/api.ts after the token effect of App ran: the default Authorization
\* header of the axios client, the requests awaited (listing, prefsLoading: counts;
\* loading: count per conversation; deleting: id and the currentConversationId the
\* handler closed over; turns: the conversationId each handleSend closed over;
\* login; prefsReq), the server's conversations and preferences, how many
\* selections, new chats, deletes, logins, preference saves and turns were made, and
\* titled: the conversation of the last title frame and the one selected then
InitialApi ==
    [header |-> "ann", listing |-> 1, prefsLoading |-> 1, loading |-> [c \in 1..3 |-> 0],
     starting |-> 0, deleting |-> {}, turns |-> {}, login |-> NoLogin, prefsReq |-> "",
     server |-> [c \in 1..2 |-> IF c = 1 THEN Summary(1, 1, 4) ELSE Summary(2, Unparseable, Absent)],
     prefs |-> "Medium", titled |-> [id |-> 0, selected |-> 0],
     n |-> [selects |-> 0, chats |-> 0, deletes |-> 0, logins |-> 0, saves |-> 0, sends |-> 0]]

\* ---------------------------------------------------------------- helpers
Last(s) == s[Len(s)]

RECURSIVE TrimLeft(_)
TrimLeft(s) == IF s # <<>> /\ Head(s) = " " THEN TrimLeft(Tail(s)) ELSE s

RECURSIVE TrimRight(_)
TrimRight(s) == IF s # <<>> /\ Last(s) = " " THEN TrimRight(SubSeq(s, 1, Len(s) - 1)) ELSE s

Trim(s) == TrimRight(TrimLeft(s))

\* chunk.split('\n')
RECURSIVE SplitFrom(_, _)
SplitFrom(chunk, cur) ==
    IF chunk = <<>> THEN << cur >>
    ELSE IF Head(chunk).s = "T" THEN << Append(cur, Head(chunk)) >> \o SplitFrom(Tail(chunk), <<>>)
    ELSE SplitFrom(Tail(chunk), Append(cur, Head(chunk)))

Split(chunk) == SplitFrom(chunk, <<>>)

\* line.startsWith('data: ')
StartsWithData(line) == line # <<>> /\ line[1].s = "H"

\* dataStr === '[DONE]'
IsDoneMarker(line) == line = << H(DoneFrame), T(DoneFrame) >>

\* JSON.parse(dataStr) returns an event only for a complete payload that is JSON
ParseOk(line) ==
    Len(line) = 2 /\ line[2].s = "T" /\ line[2].f = line[1].f /\ line[1].f.type # "invalid"

Parse(line) == line[1].f

\* ------------------------------------------------------------------ state
VARIABLES
    messages,            \* ChatArea: messages
    input,               \* ChatArea: input
    isLoading,           \* ChatArea: isLoading
    isStreaming,         \* ChatArea: isStreaming
    abortControllerRef,  \* ChatArea: abortControllerRef.current, 0 is null, r the controller of turn r
    title,               \* title of the conversation ChatArea shows (App.conversations)
    pc,                  \* per turn: where its handleSend is
    aiContent,           \* per turn: the local aiContent of handleSend
    aborted,             \* per turn: signal.aborted of its AbortController
    sent,                \* per turn: the frames the server has written to the response body
    net,                 \* per turn: the symbols written that reader.read() has not returned yet
    applied,             \* per turn: the frames handleSend has recognised, in order
    prompts,             \* AuthPrompt: the state of the component of each list index that mounted one
    popup,               \* the browser window named 'mcp-auth-popup'
    store,               \* the user's Credential Store, per provider and key
    modal,               \* PreferencesModal and its ToolPage: their state
    writes,              \* the credential writes the store has committed, in order
    app,                 \* App: its state, and the React root
    api                  \* services/api.ts: the axios client, its requests, the server's data

\* the state of ChatArea and of its turns
chat == << messages, input, isLoading, isStreaming, abortControllerRef, title,
           pc, aiContent, aborted, sent, net, applied >>

\* the state of the auth prompts, the settings page and the credential store
ext == << prompts, popup, store, modal, writes, app, api >>

vars == << messages, input, isLoading, isStreaming, abortControllerRef, title,
           pc, aiContent, aborted, sent, net, applied, prompts, popup, store, modal, writes,
          app, api >>

ui == << input, isLoading, isStreaming, abortControllerRef >>

\* ---------------------------------------------------- handleSend, frames
\* the token branch: aiContent += event.content and the setMessages updater
ApplyToken(msgs, ai, r) ==
    IF msgs = <<>> \/ Last(msgs).role = "user" \/ Last(msgs).type = "thought"
    THEN Append(msgs, Msg("assistant", ai, "message", NoEntryAuth, r))
    ELSE [msgs EXCEPT ![Len(msgs)] = [@ EXCEPT !.content = ai, !.type = "message", !.turn = r]]

\* mutant: the auth_required branch builds an entry of type 'error'
AuthEntryAsError(ev, r) ==
    Msg("error", ev.auth_config.instructions, "error",
        [server_name |-> ev.server_name, type |-> ev.auth_config.type,
         instructions |-> ev.auth_config.instructions,
         target_env_var |-> ev.auth_config.target_env_var], r)

\* the auth_required branch: the entry built from event.auth_config
AuthEntry(ev, r) ==
    Msg("assistant", ev.auth_config.instructions, "auth_required",
        [server_name |-> ev.server_name, type |-> ev.auth_config.type,
         instructions |-> ev.auth_config.instructions,
         target_env_var |-> ev.auth_config.target_env_var], r)

\* App.handleTitleUpdate(conversationId, event.content)
handleTitleUpdate(t, newTitle) == newTitle

\* the if / else-if chain on event.type; st is [messages, aiContent, title, applied,
\* threw]. The updater of the auth_required branch reads event.auth_config.instructions
\* when React renders, outside the try of the loop: without auth_config it throws there
Dispatch(st, ev, r) ==
    LET st1 == [st EXCEPT !.applied = Append(@, ev)] IN
    CASE ev.type = "token" ->
            LET ai == st.aiContent \o ev.content IN
            [st1 EXCEPT !.aiContent = ai, !.messages = ApplyToken(st.messages, ai, r)]
      [] ev.type = "thought" ->
            [st1 EXCEPT !.messages = Append(@, Msg("assistant", ev.content, "thought", NoEntryAuth, r))]
      [] ev.type = "question" ->
            [st1 EXCEPT !.messages = Append(@, Msg("assistant", ev.content, "message", NoEntryAuth, r))]
      [] ev.type = "auth_required" ->
            IF ev.auth_config = NoAuth THEN [st1 EXCEPT !.threw = TRUE]
            ELSE [st1 EXCEPT !.messages = Append(@, AuthEntry(ev, r))]
      [] ev.type = "intent" ->
            [st1 EXCEPT !.messages = Append(@, Msg("intent", ev.content, "intent", NoEntryAuth, r))]
      [] ev.type = "plan" ->
            [st1 EXCEPT !.messages = Append(@, Msg("plan", ev.content, "plan", NoEntryAuth, r))]
      [] ev.type = "error" ->
            [st1 EXCEPT !.messages = Append(@, Msg("error", ev.content, "error", NoEntryAuth, r))]
      [] ev.type = "title" ->
            [st1 EXCEPT !.title = handleTitleUpdate(@, ev.content)]
      [] OTHER -> st1

\* for (const line of lines) { ... }: the two break statements leave this loop only
RECURSIVE ProcessLines(_, _, _)
ProcessLines(lines, st, r) ==
    IF lines = <<>> THEN st
    ELSE LET line == Head(lines) IN
         IF ~StartsWithData(line) THEN ProcessLines(Tail(lines), st, r)
         ELSE IF IsDoneMarker(line) THEN [st EXCEPT !.applied = Append(@, DoneFrame)]
         ELSE IF ~ParseOk(line) THEN ProcessLines(Tail(lines), st, r)
         ELSE LET st2 == Dispatch(st, Parse(line), r) IN
              IF Parse(line).type = "auth_required" THEN st2
              ELSE ProcessLines(Tail(lines), st2, r)

\* one pass of the while loop body for a chunk that reader.read() returned
ProcessChunk(chunk, st, r) == ProcessLines(Split(chunk), st, r)

\* mutant: the catch block does not look at error.name
CatchAll(msgs, name, r) ==
    Append(msgs, Msg("assistant", Sorry, "none", NoEntryAuth, r))

\* mutant: the catch block answers an AbortError with a narration entry
CatchCancelNote(msgs, name, r) ==
    IF name # "AbortError"
    THEN Append(msgs, Msg("assistant", Sorry, "none", NoEntryAuth, r))
    ELSE Append(msgs, Msg("assistant", <<"c">>, "message", NoEntryAuth, r))

\* catch (error): everything but an AbortError is reported with the generic message
Catch(msgs, name, r) ==
    IF name # "AbortError"
    THEN Append(msgs, Msg("assistant", Sorry, "none", NoEntryAuth, r))
    ELSE msgs

\* mutant: the finally block does not reset isLoading
FinallyKeepsLoading(r) ==
    /\ isLoading' = isLoading
    /\ isStreaming' = FALSE
    /\ abortControllerRef' = 0
    /\ pc' = [pc EXCEPT ![r] = "ended"]

\* finally { setIsLoading(false); setIsStreaming(false); abortControllerRef.current = null }
Finally(r) ==
    /\ isLoading' = FALSE
    /\ isStreaming' = FALSE
    /\ abortControllerRef' = 0
    /\ pc' = [pc EXCEPT ![r] = "ended"]

\* ------------------------------------------------------------ predicates
InFlight(r) == pc[r] \in {"fetch", "reading"}

Started(r) == pc[r] # "unused"

nStarted == Cardinality({r \in Turns : Started(r)})

IsToken(f) == f.type = "token"

NotToken(f) == f.type # "token"

\* token frames written so far to the responses of turns 1..n
RECURSIVE CountTokens(_)
CountTokens(n) == IF n = 0 THEN 0 ELSE Len(SelectSeq(sent[n], IsToken)) + CountTokens(n - 1)

\* other frames written so far to the responses of turns 1..n
RECURSIVE CountOthers(_)
CountOthers(n) == IF n = 0 THEN 0 ELSE Len(SelectSeq(sent[n], NotToken)) + CountOthers(n - 1)

TokensSent == CountTokens(MaxTurns)

OthersSent == CountOthers(MaxTurns)

\* a rejected promise continuation (microtask) runs before any other task
NoMicrotask == \A r \in Turns : pc[r] # "aborting"

\* <textarea disabled={isLoading && !isStreaming}>
TextareaDisabled == ~app.mounted \/ (isLoading /\ ~isStreaming)

\* <button type="submit" disabled={!input.trim() || isLoading}>, rendered when !isStreaming
SubmitEnabled == app.mounted /\ ~isStreaming /\ Trim(input) # <<>> /\ ~isLoading

\* the stop button is rendered when isStreaming
StopShown == app.mounted /\ isStreaming

\* ---------------------------------------------------------------- actions
Init ==
    /\ messages = <<>>
    /\ input = <<>>
    /\ isLoading = FALSE
    /\ isStreaming = FALSE
    /\ abortControllerRef = 0
    /\ title = <<>>
    /\ pc = [r \in Turns |-> "unused"]
    /\ aiContent = [r \in Turns |-> <<>>]
    /\ aborted = [r \in Turns |-> FALSE]
    /\ sent = [r \in Turns |-> <<>>]
    /\ net = [r \in Turns |-> <<>>]
    /\ applied = [r \in Turns |-> <<>>]
    /\ prompts = << >>
    /\ popup = NoPopup
    /\ store = EmptyStore
    /\ modal = ClosedModal
    /\ writes = << >>
    /\ app = InitialApp
    /\ api = InitialApi

\* onChange={(e) => setInput(e.target.value)}
TypeInput(v) ==
    /\ NoMicrotask
    /\ ~TextareaDisabled
    /\ nStarted < MaxTurns
    /\ v # input
    /\ input' = v
    /\ UNCHANGED << messages, isLoading, isStreaming, abortControllerRef, title,
                    pc, aiContent, aborted, sent, net, applied >>
    /\ UNCHANGED ext

\* handleSend up to the await of fetch; r is the turn it starts
handleSend(r) ==
    /\ Trim(input) # <<>>
    /\ messages' = Append(messages, Msg("user", input, "none", NoEntryAuth, r))
    /\ input' = <<>>
    /\ isLoading' = TRUE
    /\ isStreaming' = TRUE
    /\ abortControllerRef' = r
    /\ aiContent' = [aiContent EXCEPT ![r] = <<>>]
    /\ pc' = [pc EXCEPT ![r] = "fetch"]
    /\ UNCHANGED << title, aborted, sent, net, applied >>
    /\ UNCHANGED ext

\* the submit button: <form onSubmit={handleSend}>
SubmitClick ==
    /\ NoMicrotask
    /\ nStarted < MaxTurns
    /\ SubmitEnabled
    /\ handleSend(nStarted + 1)

\* handleKeyDown: Enter without Shift in the textarea calls handleSend()
handleKeyDown ==
    /\ NoMicrotask
    /\ nStarted < MaxTurns
    /\ ~TextareaDisabled
    /\ handleSend(nStarted + 1)

\* fetch resolves; if (!response.ok || !response.body) throw
FetchResolve(r, ok) ==
    /\ NoMicrotask
    /\ pc[r] = "fetch"
    /\ IF ok
       THEN /\ pc' = [pc EXCEPT ![r] = "reading"]
            /\ UNCHANGED << messages, isLoading, isStreaming, abortControllerRef >>
       ELSE /\ messages' = Catch(messages, "Error", r)
            /\ Finally(r)
    /\ UNCHANGED << input, title, aiContent, aborted, sent, net, applied >>
    /\ UNCHANGED ext

\* fetch or reader.read() rejects with a network error
NetworkError(r) ==
    /\ NoMicrotask
    /\ InFlight(r)
    /\ messages' = Catch(messages, "TypeError", r)
    /\ Finally(r)
    /\ UNCHANGED << input, title, aiContent, aborted, sent, net, applied >>
    /\ UNCHANGED ext

\* the server writes one frame to the response body
ServerEmit(r, f) ==
    /\ NoMicrotask
    /\ pc[r] = "reading"
    /\ IF IsToken(f) THEN TokensSent < MaxTokens ELSE OthersSent < MaxOther
    /\ sent' = [sent EXCEPT ![r] = Append(@, f)]
    /\ net' = [net EXCEPT ![r] = @ \o Encode(f)]
    /\ UNCHANGED << messages, ui, title, pc, aiContent, aborted, applied >>
    /\ UNCHANGED ext

\* reader.read() returns the next n symbols; the body of the while loop runs on them.
\* An updater that throws while React renders unmounts the root, and the setters of an
\* unmounted component do nothing
ReadChunk(r, n) ==
    /\ NoMicrotask
    /\ pc[r] = "reading"
    /\ n \in 1..Len(net[r])
    /\ LET chunk == SubSeq(net[r], 1, n)
           st == ProcessChunk(chunk, [messages |-> messages, aiContent |-> aiContent[r],
                                      title |-> title, applied |-> applied[r],
                                      threw |-> FALSE], r)
       IN /\ messages' = IF app.mounted /\ ~st.threw THEN st.messages ELSE messages
          /\ aiContent' = [aiContent EXCEPT ![r] = st.aiContent]
          /\ title' = IF app.mounted /\ ~st.threw THEN st.title ELSE title
          /\ applied' = [applied EXCEPT ![r] = st.applied]
          /\ app' = [app EXCEPT !.mounted = @ /\ ~st.threw]
    /\ net' = [net EXCEPT ![r] = SubSeq(@, n + 1, Len(@))]
    /\ UNCHANGED << ui, pc, aborted, sent >>
    /\ UNCHANGED << prompts, popup, store, modal, writes, api >>

\* the server ends the response body and reader.read() returns done: break, then finally
ReadDone(r) ==
    /\ NoMicrotask
    /\ pc[r] = "reading"
    /\ net[r] = <<>>
    /\ Finally(r)
    /\ UNCHANGED << messages, input, title, aiContent, aborted, sent, net, applied >>
    /\ UNCHANGED ext

\* handleStop, from the stop button
handleStop ==
    /\ NoMicrotask
    /\ StopShown
    /\ abortControllerRef # 0
    /\ aborted' = [aborted EXCEPT ![abortControllerRef] = TRUE]
    /\ pc' = [pc EXCEPT ![abortControllerRef] = IF InFlight(abortControllerRef) THEN "aborting" ELSE @]
    /\ isStreaming' = FALSE
    /\ isLoading' = FALSE
    /\ UNCHANGED << messages, input, abortControllerRef, title, aiContent, sent, net, applied >>
    /\ UNCHANGED ext

\* the awaited fetch or read of an aborted turn rejects with AbortError: catch, finally
AbortSettle(r) ==
    /\ pc[r] = "aborting"
    /\ messages' = Catch(messages, "AbortError", r)
    /\ Finally(r)
    /\ UNCHANGED << input, title, aiContent, aborted, sent, net, applied >>
    /\ UNCHANGED ext

\* ------------------------------------------------------------- AuthPrompt
\* MessageBubble: isAuth && message.auth_config renders an AuthPrompt
IsAuthEntry(m) ==
    (m.role = "auth_required" \/ m.type = "auth_required") /\ m.auth_config # NoEntryAuth

\* the list index i (the key of its MessageBubble) shows an AuthPrompt
Mounted(i) == i \in 1..Len(messages) /\ IsAuthEntry(messages[i])

\* the state of the AuthPrompt of index i; useState gives the initial one at mount
PromptAt(i) == IF i \in DOMAIN prompts THEN prompts[i] ELSE InitialPrompt

SetPrompt(i, st) == [j \in DOMAIN prompts \cup {i} |-> IF j = i THEN st ELSE prompts[j]]

\* the props MessageBubble passes
serverName(i) == messages[i].auth_config.server_name

targetEnvVar(i) == messages[i].auth_config.target_env_var

authType(i) == messages[i].auth_config.type

\* mutant: the form stays rendered after success
FormShownAfterSuccess(i) == Mounted(i) /\ authType(i) # "oauth"

\* render: the success card replaces everything; the form is the last return
FormShown(i) == Mounted(i) /\ ~PromptAt(i).isSuccess /\ authType(i) # "oauth"

\* render: if (authType === 'oauth') the connect button
OAuthButtonShown(i) == Mounted(i) /\ ~PromptAt(i).isSuccess /\ authType(i) = "oauth"

\* Credential Store: set (provider, key) to a value
Put(st, p, k, v) == [st EXCEPT ![p][k] = v]

\* the record of a committed write of (provider, key), sent when the store had
\* committed `at` writes
Write(p, k, v, at) == [provider |-> p, key |-> k, value |-> v, sentAt |-> at]

\* the token the OAuth exchange of a provider yields
OAuthToken == <<"o">>

\* <input value={token} onChange={(e) => setToken(e.target.value)} disabled={isSubmitting}>
setToken(i, v) ==
    /\ FormShown(i)
    /\ ~PromptAt(i).isSubmitting
    /\ v # PromptAt(i).token
    /\ prompts' = SetPrompt(i, [PromptAt(i) EXCEPT !.token = v])
    /\ UNCHANGED << chat, app, api, popup, store, modal, writes >>

\* the arguments of user.submitMCPAuth(serverName, token.trim(), targetEnvVar)
SubmitRequest(i) ==
    [server_name |-> serverName(i), token |-> Trim(PromptAt(i).token), token_name |-> targetEnvVar(i)]

\* handleSubmit up to the await; the submit button is disabled={isSubmitting || !token.trim()}
handleSubmit(i) ==
    /\ FormShown(i)
    /\ ~PromptAt(i).isSubmitting
    /\ Trim(PromptAt(i).token) # <<>>
    /\ PromptAt(i).submits < MaxSubmits
    /\ prompts' = SetPrompt(i, [PromptAt(i) EXCEPT !.isSubmitting = TRUE, !.error = NoError,
                                                    !.req = SubmitRequest(i), !.submits = @ + 1,
                                                    !.sentAt = Len(writes)])
    /\ UNCHANGED << chat, app, api, popup, store, modal, writes >>

\* mutant: the catch block of handleSubmit marks the prompt resolved
SubmitFailedResolves(st) == [st EXCEPT !.isSuccess = TRUE, !.by = "submit"]

\* mutant: the catch block of handleSubmit surfaces no failure reason
SubmitFailedSilent(st) == st

\* handleSubmit, catch: setError('Failed to save token. Please try again.')
SubmitFailed(st) == [st EXCEPT !.error = SaveFailed]

\* handleSubmit after the await returned: setIsSuccess(true)
SubmitOk(st) == [st EXCEPT !.isSuccess = TRUE, !.by = "submit"]

\* finally { setIsSubmitting(false) }
SubmitFinally(st) == [st EXCEPT !.isSubmitting = FALSE, !.req = NoRequest]

\* POST /user/mcp-auth is answered: the store takes the token, or the request fails
submitMCPAuthReturns(i, ok) ==
    /\ i \in DOMAIN prompts
    /\ prompts[i].req # NoRequest
    /\ LET q == prompts[i].req IN
       IF ok
       THEN /\ store' = Put(store, q.server_name, q.token_name, q.token)
            /\ writes' = Append(writes, Write(q.server_name, q.token_name, q.token, prompts[i].sentAt))
            /\ prompts' = SetPrompt(i, SubmitFinally(SubmitOk(prompts[i])))
       ELSE /\ prompts' = SetPrompt(i, SubmitFinally(SubmitFailed(prompts[i])))
            /\ UNCHANGED << store, writes >>
    /\ UNCHANGED << chat, app, api, popup, modal >>

\* handleOAuthClick: window.open(loginUrl, 'mcp-auth-popup') and addEventListener
handleOAuthClick(i) ==
    /\ OAuthButtonShown(i)
    /\ popup.open \/ popup.gen < MaxClicks
    /\ popup' = IF popup.open THEN [popup EXCEPT !.provider = serverName(i)]
                ELSE [gen |-> popup.gen + 1, open |-> TRUE, provider |-> serverName(i)]
    /\ prompts' = SetPrompt(i, [PromptAt(i) EXCEPT !.handlers = @ \cup {popup'.gen}])
    /\ UNCHANGED << chat, app, api, store, modal, writes >>

\* the popup is closed, by the user or by its page
closePopup ==
    /\ popup.open
    /\ popup' = [popup EXCEPT !.open = FALSE, !.provider = ""]
    /\ UNCHANGED << chat, app, api, prompts, store, modal, writes >>

\* the setInterval callback: if (popup?.closed) removeEventListener
timer(i, g) ==
    /\ i \in DOMAIN prompts
    /\ g \in prompts[i].handlers
    /\ g # popup.gen \/ ~popup.open
    /\ prompts' = SetPrompt(i, [prompts[i] EXCEPT !.handlers = @ \ {g}])
    /\ UNCHANGED << chat, app, api, popup, store, modal, writes >>

\* what a window may post
MessageData == { "oauth-success", "hello" }

\* messageHandler: event.origin is not checked; from is the provider whose
\* authorization completed, or "other" for any other window
messageHandler(st, i, data, from) ==
    IF st.handlers # {} /\ data = "oauth-success"
    THEN [st EXCEPT !.isSuccess = TRUE, !.by = from, !.handlers = {}]
    ELSE st

\* a 'message' event on the window: every registered messageHandler runs
Dispatched(data, from) ==
    [i \in DOMAIN prompts |-> messageHandler(prompts[i], i, data, from)]

\* the callback of the authorization the popup shows completes: the token is
\* stored and the page posts 'oauth-success' to its opener
oauthCallback ==
    /\ popup.open
    /\ popup.provider # ""
    /\ store' = Put(store, popup.provider, KeyOf(popup.provider), OAuthToken)
    /\ writes' = Append(writes, Write(popup.provider, KeyOf(popup.provider), OAuthToken, Len(writes)))
    /\ prompts' = Dispatched("oauth-success", popup.provider)
    /\ popup' = [popup EXCEPT !.provider = ""]
    /\ UNCHANGED << chat, app, api, modal >>

\* some other window posts a message
otherMessage(data) ==
    /\ \E i \in DOMAIN prompts : prompts[i].handlers # {}
    /\ prompts' = Dispatched(data, "other")
    /\ prompts' # prompts
    /\ UNCHANGED << chat, app, api, popup, store, modal, writes >>

\* the provider of an auth_required turn leaves the credential missing: the
\* response is the auth_required frame and the end marker
ServerHaltsOnAuth(r, p, k) ==
    /\ NoMicrotask
    /\ pc[r] = "reading"
    /\ sent[r] = << >>
    /\ sent' = [sent EXCEPT ![r] = << AuthFrameOf(p, k), DoneFrame >>]
    /\ net' = [net EXCEPT ![r] = Encode(AuthFrameOf(p, k)) \o Encode(DoneFrame)]
    /\ UNCHANGED << messages, ui, title, pc, aiContent, aborted, applied, ext >>

\* the chat client with a server that halts each turn on auth_required, and the auth prompts
AuthNext ==
    \/ \E v \in Utterances : TypeInput(v)
    \/ SubmitClick
    \/ \E r \in Turns : FetchResolve(r, TRUE)
    \/ \E r \in Turns, p \in Providers, k \in AuthKinds : ServerHaltsOnAuth(r, p, k)
    \/ \E r \in Turns, n \in 1..4 : ReadChunk(r, n)
    \/ \E r \in Turns : ReadDone(r)
    \/ \E i \in 1..(2 * MaxTurns), v \in TokenValues : setToken(i, v)
    \/ \E i \in 1..(2 * MaxTurns) : handleSubmit(i)
    \/ \E i \in 1..(2 * MaxTurns), ok \in BOOLEAN : submitMCPAuthReturns(i, ok)
    \/ \E i \in 1..(2 * MaxTurns) : handleOAuthClick(i)
    \/ closePopup
    \/ \E i \in 1..(2 * MaxTurns), g \in 1..MaxClicks : timer(i, g)
    \/ oauthCallback
    \/ \E data \in MessageData : otherMessage(data)

AuthSpec == Init /\ [][AuthNext]_vars

\* ------------------------------------------------------ the settings page
\* mutant: GET /user/mcp-configs returns the stored values
ReadConfigsPlain(st) ==
    [p \in { q \in Providers : \E k \in RequiredEnv(q) : st[q][k] # NoValue } |->
        [k \in { j \in RequiredEnv(p) : st[p][j] # NoValue } |-> st[p][k]]]

\* the answer to GET /user/mcp-configs: the keys that hold a value, the value masked
ReadConfigs(st) ==
    [p \in { q \in Providers : \E k \in RequiredEnv(q) : st[q][k] # NoValue } |->
        [k \in { j \in RequiredEnv(p) : st[p][j] # NoValue } |-> Mask]]

\* mutant: a write to a key that holds a value is merged with the value
PutAllMixed(st, p, env) ==
    [st EXCEPT ![p] = [k \in DOMAIN @ |->
        IF k \in DOMAIN env THEN (IF @[k] = NoValue THEN env[k] ELSE @[k] \o env[k]) ELSE @[k]]]

\* Credential Store: one write per key of the map POST /user/mcp-configs carries
PutAll(st, p, env) ==
    [st EXCEPT ![p] = [k \in DOMAIN @ |-> IF k \in DOMAIN env THEN env[k] ELSE @[k]]]

\* the records of the writes of a committed map, one per key
RECURSIVE LogWrites(_, _, _, _, _)
LogWrites(log, p, env, keys, at) ==
    IF keys = {} THEN log
    ELSE LET k == CHOOSE j \in keys : TRUE
         IN LogWrites(Append(log, Write(p, k, env[k], at)), p, env, keys \ {k}, at)

\* configs={userConfigs[server.name] || {}}
ConfigsOf(p) == IF p \in DOMAIN modal.userConfigs THEN modal.userConfigs[p] ELSE << >>

\* a ToolPage is rendered
ToolPageShown == modal.isOpen /\ ~modal.loading /\ modal.activePage \in Providers

\* onOpenSettings; the effect on isOpen: setActivePage('general'), setLoading(true), fetchData()
openSettings ==
    /\ app.token # NoToken
    /\ ~modal.isOpen
    /\ ~modal.fetching
    /\ modal' = [modal EXCEPT !.isOpen = TRUE, !.activePage = "general", !.loading = TRUE,
                               !.fetching = TRUE, !.saved = << >>]
    /\ UNCHANGED << chat, app, api, prompts, popup, store, writes >>

\* fetchData after Promise.all settled: setUserConfigs(configsData), finally
\* setLoading(false); GeneralPage mounts with useState(currentFontSize)
fetchDataReturns(ok) ==
    /\ modal.fetching
    /\ modal' = [modal EXCEPT !.fetching = FALSE, !.loading = FALSE,
                               !.userConfigs = IF ok THEN ReadConfigs(store) ELSE @]
    /\ app' = [app EXCEPT !.general = [fontSize |-> app.fontSize, saving |-> FALSE]]
    /\ UNCHANGED << chat, api, prompts, popup, store, writes >>

\* onClose
closeSettings ==
    /\ modal.isOpen
    /\ ~modal.fetching
    /\ ~modal.saving
    /\ modal' = [modal EXCEPT !.isOpen = FALSE]
    /\ UNCHANGED << chat, app, api, prompts, popup, store, writes >>

\* setActivePage(item.id); a ToolPage starts from useState(configs), GeneralPage from
\* useState(currentFontSize)
selectPage(p) ==
    /\ modal.isOpen
    /\ ~modal.loading
    /\ ~modal.saving
    /\ p # modal.activePage
    /\ modal' = [modal EXCEPT !.activePage = p,
                               !.envVars = IF p \in Providers THEN ConfigsOf(p) ELSE << >>,
                               !.typed = {}]
    /\ app' = [app EXCEPT !.general = [fontSize |-> app.fontSize, saving |-> FALSE]]
    /\ UNCHANGED << chat, api, prompts, popup, store, writes >>

\* onChange of a credential input: setEnvVars(prev => ({ ...prev, [envVar]: e.target.value }))
setEnvVars(k, v) ==
    /\ ToolPageShown
    /\ k \in RequiredEnv(modal.activePage)
    /\ IF k \in DOMAIN modal.envVars THEN modal.envVars[k] # v ELSE TRUE
    /\ modal' = [modal EXCEPT !.envVars = [j \in DOMAIN @ \cup {k} |-> IF j = k THEN v ELSE @[j]],
                               !.typed = @ \cup {k}]
    /\ UNCHANGED << chat, app, api, prompts, popup, store, writes >>

\* App renders again: for a provider without configs `{}` is a new object, and the
\* effect on [configs, toolContext] runs setEnvVars(configs)
rerender ==
    /\ ToolPageShown
    /\ modal.activePage \notin DOMAIN modal.userConfigs
    /\ modal.envVars # << >>
    /\ modal' = [modal EXCEPT !.envVars = << >>, !.typed = {}]
    /\ UNCHANGED << chat, app, api, prompts, popup, store, writes >>

\* ToolPage.handleSave up to the await: the whole map of the page is sent
handleSave ==
    /\ ToolPageShown
    /\ ~modal.saving
    /\ modal.saves < MaxSaves
    /\ modal' = [modal EXCEPT !.saving = TRUE, !.saves = @ + 1, !.sentAt = Len(writes),
                               !.req = [server_name |-> modal.activePage, env_vars |-> modal.envVars]]
    /\ UNCHANGED << chat, app, api, prompts, popup, store, writes >>

\* POST /user/mcp-configs is answered: the store takes the map, or the request fails
updateUserMCPConfigReturns(ok) ==
    /\ modal.req # NoSave
    /\ LET q == modal.req IN
       IF ok
       THEN /\ store' = PutAll(store, q.server_name, q.env_vars)
            /\ writes' = LogWrites(writes, q.server_name, q.env_vars, DOMAIN q.env_vars, modal.sentAt)
       ELSE UNCHANGED << store, writes >>
    /\ modal' = [modal EXCEPT !.saving = FALSE, !.req = NoSave,
                               !.saved = IF ok
                                         THEN [p \in DOMAIN @ \cup { modal.req.server_name } |->
                                                 IF p = modal.req.server_name
                                                 THEN modal.req.env_vars ELSE @[p]]
                                         ELSE @]
    /\ UNCHANGED << chat, app, api, prompts, popup >>

\* ChatArea after a turn that halted on auth_required for provider srv, token paste
CredInit ==
    /\ messages = << Msg("user", <<"h">>, "none", NoEntryAuth, 1),
                     AuthEntry(AuthFrameOf("srv", "browser"), 1) >>
    /\ input = <<>>
    /\ isLoading = FALSE
    /\ isStreaming = FALSE
    /\ abortControllerRef = 0
    /\ title = <<>>
    /\ pc = [r \in Turns |-> IF r = 1 THEN "ended" ELSE "unused"]
    /\ aiContent = [r \in Turns |-> <<>>]
    /\ aborted = [r \in Turns |-> FALSE]
    /\ sent = [r \in Turns |-> IF r = 1 THEN << AuthFrameOf("srv", "browser"), DoneFrame >> ELSE <<>>]
    /\ net = [r \in Turns |-> <<>>]
    /\ applied = [r \in Turns |-> IF r = 1 THEN << AuthFrameOf("srv", "browser") >> ELSE <<>>]
    /\ prompts = << >>
    /\ popup = NoPopup
    /\ store = EmptyStore
    /\ modal = ClosedModal
    /\ writes = << >>
    /\ app = InitialApp
    /\ api = InitialApi

\* the auth prompt and the settings page writing to the credential store
CredNext ==
    \/ \E i \in 1..2, v \in TokenValues : setToken(i, v)
    \/ \E i \in 1..2 : handleSubmit(i)
    \/ \E i \in 1..2, ok \in BOOLEAN : submitMCPAuthReturns(i, ok)
    \/ openSettings
    \/ \E ok \in BOOLEAN : fetchDataReturns(ok)
    \/ closeSettings
    \/ \E p \in Providers \cup {"general"} : selectPage(p)
    \/ \E p \in Providers : \E k \in RequiredEnv(p), v \in EnvValues : setEnvVars(k, v)
    \/ rerender
    \/ handleSave
    \/ \E ok \in BOOLEAN : updateUserMCPConfigReturns(ok)

CredSpec == CredInit /\ [][CredNext]_vars

\* ------------------------------------------------------ the spec scenario
\* what ends the scenario: the lookup succeeded, or its tool has no credential
ScenarioEnds == { Frame("thought", <<"t">>), AuthFrame }

\* intent, plan, the token spelling "4", a thought or auth_required, the end marker
ScenarioScript(e) ==
    << Frame("intent", <<"n">>), Frame("plan", <<"p">>), Frame("token", <<"4">>), e, DoneFrame >>

\* the server writes the next frame of the scenario to the response of turn r
ScenarioEmit(r) ==
    /\ NoMicrotask
    /\ pc[r] = "reading"
    /\ \E e \in ScenarioEnds :
          LET script == ScenarioScript(e)
              n == Len(sent[r])
          IN /\ n < Len(script)
             /\ sent[r] = SubSeq(script, 1, n)
             /\ sent' = [sent EXCEPT ![r] = Append(@, script[n + 1])]
             /\ net' = [net EXCEPT ![r] = @ \o Encode(script[n + 1])]
    /\ UNCHANGED << messages, ui, title, pc, aiContent, aborted, applied, ext >>

\* the chat client with a server that answers every turn with the scenario
ScenarioNext ==
    \/ \E v \in InputValues : TypeInput(v)
    \/ SubmitClick
    \/ \E r \in Turns : FetchResolve(r, TRUE)
    \/ \E r \in Turns : ScenarioEmit(r)
    \/ \E r \in Turns, n \in 1..10 : ReadChunk(r, n)
    \/ \E r \in Turns : ReadDone(r)

ScenarioSpec == Init /\ [][ScenarioNext]_vars

\* -------------------------------------------------- App: conversations
\* validA / validB of the sort: the time of updated_at || created_at, 0 when it is NaN
validTime(c) ==
    LET raw == IF c.updated_at # Absent THEN c.updated_at ELSE c.created_at
    IN IF raw = Unparseable THEN 0 ELSE raw

\* mutant: the comparator returns validA - validB
RECURSIVE sortedOldestFirst(_)
sortedOldestFirst(data) ==
    IF data = <<>> THEN <<>>
    ELSE LET m == CHOOSE i \in 1..Len(data) :
                    \A j \in 1..Len(data) :
                        \/ validTime(data[i]) < validTime(data[j])
                        \/ validTime(data[j]) = validTime(data[i]) /\ i <= j
         IN << data[m] >> \o sortedOldestFirst(SubSeq(data, 1, m - 1) \o SubSeq(data, m + 1, Len(data)))

\* data.sort((a, b) => validB - validA): a stable sort, the greatest time first
RECURSIVE sorted(_)
sorted(data) ==
    IF data = <<>> THEN <<>>
    ELSE LET m == CHOOSE i \in 1..Len(data) :
                    \A j \in 1..Len(data) :
                        \/ validTime(data[j]) < validTime(data[i])
                        \/ validTime(data[j]) = validTime(data[i]) /\ i <= j
         IN << data[m] >> \o sorted(SubSeq(data, 1, m - 1) \o SubSeq(data, m + 1, Len(data)))

\* mutant: handleTitleUpdate gives the title to every conversation
TitleUpdaterAll(prev, id, newTitle) ==
    [i \in 1..Len(prev) |-> [prev[i] EXCEPT !.title = newTitle]]

\* handleTitleUpdate: prev.map(c => c.id === id ? { ...c, title: newTitle } : c)
TitleUpdater(prev, id, newTitle) ==
    [i \in 1..Len(prev) |-> IF prev[i].id = id THEN [prev[i] EXCEPT !.title = newTitle] ELSE prev[i]]

\* loadConversations after chat.listConversations settled: the server's summaries, in
\* the order the server chose, are sorted and become the list
loadConversationsReturns(order, ok) ==
    /\ api.listing > 0
    /\ DOMAIN order = 1..Cardinality(DOMAIN api.server)
    /\ { order[i] : i \in DOMAIN order } = DOMAIN api.server
    /\ api' = [api EXCEPT !.listing = @ - 1]
    /\ app' = IF ok
              THEN [app EXCEPT !.conversations = sorted([i \in DOMAIN order |-> api.server[order[i]]])]
              ELSE app
    /\ UNCHANGED << chat, prompts, popup, store, modal, writes >>

\* handleSelectConversation(id) from the sidebar, and the effect on
\* currentConversationId: loadConversationHistory(id) up to its await
handleSelectConversation(id) ==
    /\ \E i \in 1..Len(app.conversations) : app.conversations[i].id = id
    /\ id # app.currentConversationId
    /\ api.n.selects < MaxSelects
    /\ app' = [app EXCEPT !.currentConversationId = id, !.isLoadingHistory = TRUE]
    /\ api' = [api EXCEPT !.loading[id] = @ + 1, !.n.selects = @ + 1]
    /\ UNCHANGED << chat, prompts, popup, store, modal, writes >>

\* loadConversationHistory(id) after chat.getConversation settled: setMessages of the
\* detail, or the catch; finally setIsLoadingHistory(false)
getConversationReturns(id, ok) ==
    /\ api.loading[id] > 0
    /\ ok => id \in DOMAIN api.server
    /\ api' = [api EXCEPT !.loading[id] = @ - 1]
    /\ app' = [app EXCEPT !.messages = IF ok THEN Shown("history", id) ELSE @,
                           !.isLoadingHistory = FALSE]
    /\ UNCHANGED << chat, prompts, popup, store, modal, writes >>

\* handleNewChat up to the await of chat.start
handleNewChat ==
    /\ api.n.chats < 1
    /\ api' = [api EXCEPT !.starting = @ + 1, !.n.chats = @ + 1]
    /\ UNCHANGED << chat, prompts, popup, store, modal, writes, app >>

\* handleNewChat after chat.start settled: the server made conversation 3; select it,
\* show its greeting, the effect loads its history, then loadConversations()
startReturns(ok) ==
    /\ api.starting > 0
    /\ IF ok
       THEN /\ app' = [app EXCEPT !.currentConversationId = 3, !.messages = Shown("greeting", 3),
                                   !.isLoadingHistory = TRUE]
            /\ api' = [api EXCEPT !.starting = @ - 1, !.loading[3] = @ + 1, !.listing = @ + 1,
                                   !.server = [c \in DOMAIN @ \cup {3} |->
                                                  IF c = 3 THEN Summary(3, 5, Absent) ELSE @[c]]]
       ELSE /\ api' = [api EXCEPT !.starting = @ - 1]
            /\ UNCHANGED app
    /\ UNCHANGED << chat, prompts, popup, store, modal, writes >>

\* handleDeleteConversation(id) up to the await of chat.deleteConversation; the
\* handler closes over the currentConversationId of the render it was made in
handleDeleteConversation(id, confirmed) ==
    /\ \E i \in 1..Len(app.conversations) : app.conversations[i].id = id
    /\ api.n.deletes < MaxDeletes
    /\ IF confirmed
       THEN api' = [api EXCEPT !.n.deletes = @ + 1,
                               !.deleting = @ \cup { [id |-> id,
                                   currentConversationId |-> app.currentConversationId] }]
       ELSE UNCHANGED api
    /\ UNCHANGED << chat, prompts, popup, store, modal, writes, app >>

\* handleDeleteConversation after the request settled: filter the list, and clear the
\* selection if (currentConversationId === id); the effect then empties the messages
deleteConversationReturns(d, ok) ==
    /\ d \in api.deleting
    /\ ok => d.id \in DOMAIN api.server
    /\ IF ok
       THEN /\ api' = [api EXCEPT !.deleting = @ \ {d},
                                   !.server = [c \in DOMAIN @ \ {d.id} |-> @[c]]]
            /\ app' = LET kept(c) == c.id # d.id
                          a1 == [app EXCEPT !.conversations = SelectSeq(@, kept)]
                      IN IF d.currentConversationId = d.id
                         THEN [a1 EXCEPT !.currentConversationId = 0, !.messages = Shown("empty", 0)]
                         ELSE a1
       ELSE /\ api' = [api EXCEPT !.deleting = @ \ {d}]
            /\ UNCHANGED app
    /\ UNCHANGED << chat, prompts, popup, store, modal, writes >>

\* ChatArea.handleSend of the mounted ChatArea: it closes over its conversationId prop
sendTurn ==
    /\ app.currentConversationId # 0
    /\ ~app.isLoadingHistory
    /\ api.n.sends < MaxTitles
    /\ api' = [api EXCEPT !.turns = @ \cup { app.currentConversationId }, !.n.sends = @ + 1]
    /\ UNCHANGED << chat, prompts, popup, store, modal, writes, app >>

\* the title frame that ends the response of a turn: the server has stored the title
\* and the title branch calls onTitleUpdate(conversationId, event.content)
titleFrame(id) ==
    /\ id \in api.turns
    /\ api' = [api EXCEPT !.turns = @ \ {id},
                           !.titled = [id |-> id, selected |-> app.currentConversationId],
                           !.server = [c \in DOMAIN @ |->
                                          IF c = id THEN [@[c] EXCEPT !.title = <<"T">>] ELSE @[c]]]
    /\ app' = [app EXCEPT !.conversations = TitleUpdater(@, id, <<"T">>)]
    /\ UNCHANGED << chat, prompts, popup, store, modal, writes >>

\* the sidebar, the history loads and the turns of a signed-in user
AppNext ==
    \/ \E order \in UNION { [1..k -> 1..3] : k \in 0..3 }, ok \in BOOLEAN :
          loadConversationsReturns(order, ok)
    \/ \E id \in 1..3 : handleSelectConversation(id)
    \/ \E id \in 1..3, ok \in BOOLEAN : getConversationReturns(id, ok)
    \/ handleNewChat
    \/ \E ok \in BOOLEAN : startReturns(ok)
    \/ \E id \in 1..3, confirmed \in BOOLEAN : handleDeleteConversation(id, confirmed)
    \/ \E d \in [id : 1..3, currentConversationId : 0..3], ok \in BOOLEAN :
          deleteConversationReturns(d, ok)
    \/ sendTurn
    \/ \E id \in 1..3 : titleFrame(id)

AppSpec == Init /\ [][AppNext]_vars

\* ------------------------------------------- App: session and preferences
\* applyPreferences: document.documentElement.style.fontSize = sizeMap[prefs.fontSize] || '16px'
applyPreferences(fontSize) ==
    CASE fontSize = "Extra Small" -> "12px"
      [] fontSize = "Small" -> "14px"
      [] fontSize = "Medium" -> "16px"
      [] fontSize = "Large" -> "18px"
      [] fontSize = "Extra Large" -> "20px"
      [] OTHER -> "16px"

\* handleLogout, from the sidebar; the effect on token does nothing for null, and
\* App renders Login in place of the sidebar, the chat and the modal
handleLogout ==
    /\ app.token # NoToken
    /\ ~modal.isOpen
    /\ app' = [app EXCEPT !.token = NoToken, !.conversations = <<>>,
                           !.currentConversationId = 0, !.messages = Shown("empty", 0)]
    /\ modal' = ClosedModal
    /\ UNCHANGED << chat, prompts, popup, store, writes, api >>

\* Login.handleSubmit up to the await of auth.login: POST /login goes out with the
\* default headers of the axios client
loginSubmit(u) ==
    /\ app.token = NoToken
    /\ api.login = NoLogin
    /\ api.n.logins < MaxLogins
    /\ api' = [api EXCEPT !.login = [user_name |-> u, Authorization |-> api.header],
                           !.n.logins = @ + 1]
    /\ UNCHANGED << chat, prompts, popup, store, modal, writes, app >>

\* Login.handleSubmit after the await: setAuthToken(data.access_token), onLogin;
\* App.handleLogin, and the token effect: loadConversations(), loadPreferences()
loginReturns(ok) ==
    /\ api.login # NoLogin
    /\ IF ok
       THEN /\ api' = [api EXCEPT !.login = NoLogin, !.header = api.login.user_name,
                                   !.listing = @ + 1, !.prefsLoading = @ + 1]
            /\ app' = [app EXCEPT !.token = api.login.user_name, !.conversations = <<>>,
                                   !.currentConversationId = 0, !.messages = Shown("empty", 0)]
       ELSE /\ api' = [api EXCEPT !.login = NoLogin]
            /\ UNCHANGED app
    /\ UNCHANGED << chat, prompts, popup, store, modal, writes >>

\* loadPreferences after the await: setPreferences(prefs); the effect on preferences
\* applies them, and the effect of GeneralPage takes the new currentFontSize
loadPreferencesReturns(ok) ==
    /\ api.prefsLoading > 0
    /\ api' = [api EXCEPT !.prefsLoading = @ - 1]
    /\ app' = IF ok /\ api.prefs # app.fontSize
              THEN [app EXCEPT !.fontSize = api.prefs, !.rootFontSize = applyPreferences(api.prefs),
                               !.general.fontSize = api.prefs]
              ELSE app
    /\ UNCHANGED << chat, prompts, popup, store, modal, writes >>

\* the font size select of GeneralPage: onChange={(e) => setFontSize(e.target.value)}
setFontSize(v) ==
    /\ modal.isOpen /\ ~modal.loading /\ modal.activePage = "general"
    /\ v # app.general.fontSize
    /\ app' = [app EXCEPT !.general.fontSize = v]
    /\ UNCHANGED << chat, prompts, popup, store, modal, writes, api >>

\* GeneralPage.handleSave up to the await of user.updatePreferences
handleSaveGeneral ==
    /\ modal.isOpen /\ ~modal.loading /\ modal.activePage = "general"
    /\ ~app.general.saving
    /\ api.prefsReq = ""
    /\ api.n.saves < MaxSaves
    /\ app' = [app EXCEPT !.general.saving = TRUE]
    /\ api' = [api EXCEPT !.prefsReq = app.general.fontSize, !.n.saves = @ + 1]
    /\ UNCHANGED << chat, prompts, popup, store, modal, writes >>

\* GeneralPage.handleSave after the await: onSave sets the preferences of App, whose
\* effect applies them, and onClose closes the modal; finally setSaving(false)
updatePreferencesReturns(ok) ==
    /\ api.prefsReq # ""
    /\ IF ok
       THEN /\ api' = [api EXCEPT !.prefsReq = "", !.prefs = api.prefsReq]
            /\ app' = [app EXCEPT !.general.saving = FALSE, !.fontSize = api.prefsReq,
                                   !.rootFontSize = applyPreferences(api.prefsReq)]
            /\ modal' = [modal EXCEPT !.isOpen = FALSE]
       ELSE /\ api' = [api EXCEPT !.prefsReq = ""]
            /\ app' = [app EXCEPT !.general.saving = FALSE]
            /\ UNCHANGED modal
    /\ UNCHANGED << chat, prompts, popup, store, writes >>

\* signing out and in, and the general page of the settings
SessionNext ==
    \/ handleLogout
    \/ \E u \in { "ann", "bob" } : loginSubmit(u)
    \/ \E ok \in BOOLEAN : loginReturns(ok)
    \/ \E ok \in BOOLEAN : loadPreferencesReturns(ok)
    \/ openSettings
    \/ \E ok \in BOOLEAN : fetchDataReturns(ok)
    \/ closeSettings
    \/ \E s \in SIZES : setFontSize(s.id)
    \/ handleSaveGeneral
    \/ \E ok \in BOOLEAN : updatePreferencesReturns(ok)

SessionSpec == Init /\ [][SessionNext]_vars

\* ------------------------------------------------------ malformed frames
\* frames of a response that holds malformed ones: a payload that is not JSON, an
\* auth_required event without auth_config, and the well-formed frames around them
FaultFrames ==
    { Frame("invalid", <<"j">>),
      [type |-> "auth_required", content |-> <<>>, server_name |-> "srv", auth_config |-> NoAuth],
      Frame("token", <<"a">>), Frame("token", <<"b">>), Frame("thought", <<"t">>) }

\* the chat client with such a server; every chunk ends at the end of a line
FaultNext ==
    \/ \E v \in InputValues : TypeInput(v)
    \/ SubmitClick
    \/ \E r \in Turns : FetchResolve(r, TRUE)
    \/ \E r \in Turns, f \in FaultFrames : ServerEmit(r, f)
    \/ \E r \in Turns, n \in { 2, 4, 6 } : ReadChunk(r, n)
    \/ \E r \in Turns : ReadDone(r)

FaultSpec == Init /\ [][FaultNext]_vars

Next ==
    \/ \E v \in InputValues : TypeInput(v)
    \/ SubmitClick
    \/ handleKeyDown
    \/ \E r \in Turns, ok \in BOOLEAN : FetchResolve(r, ok)
    \/ \E r \in Turns : NetworkError(r)
    \/ \E r \in Turns, f \in Frames : ServerEmit(r, f)
    \/ \E r \in Turns, n \in 1..(2 * (MaxTokens + MaxOther)) : ReadChunk(r, n)
    \/ \E r \in Turns : ReadDone(r)
    \/ handleStop
    \/ \E r \in Turns : AbortSettle(r)

Spec == Init /\ [][Next]_vars

\* ------------------------------------------------ vocabulary of the claims
\* turn r has read the end marker `data: [DONE]`
DoneRead(r) == \E i \in 1..Len(applied[r]) : applied[r][i] = DoneFrame

\* turn r has applied an auth_required frame
AuthRead(r) == \E i \in 1..Len(applied[r]) : applied[r][i].type = "auth_required"

\* turn r has applied a frame of one of the given types
Applied(r, types) == \E i \in 1..Len(applied[r]) : applied[r][i].type \in types

\* the step is a pass of the reader loop of turn r over a chunk
ReadsChunk(r) == Len(net'[r]) < Len(net[r])

\* the text of the token frames of fs that follow its last frame for the message
\* list that is no token (a title frame is not for the message list)
RECURSIVE TokenRun(_)
TokenRun(fs) ==
    IF fs = <<>> THEN <<>>
    ELSE IF Last(fs).type = "token" THEN TokenRun(SubSeq(fs, 1, Len(fs) - 1)) \o Last(fs).content
    ELSE IF Last(fs).type = "title" THEN TokenRun(SubSeq(fs, 1, Len(fs) - 1))
    ELSE <<>>

\* the bytes of a sequence of frames
RECURSIVE Wire(_)
Wire(fs) == IF fs = <<>> THEN <<>> ELSE Encode(Head(fs)) \o Wire(Tail(fs))

IsSorry(m) == m.role = "assistant" /\ m.content = Sorry /\ m.type = "none"

IsErrorEntry(m) == m.type = "error"

IsErrorFrame(f) == f.type = "error"

IsNarration(m) == m.role = "assistant" /\ m.type = "message"

\* the narration entries written by turn r
NarrationOf(r) == { i \in 1..Len(messages) : messages[i].turn = r /\ IsNarration(messages[i]) }

\* the generic failure messages written by turn r
SorryOf(r) == { i \in 1..Len(messages) : messages[i].turn = r /\ IsSorry(messages[i]) }

Idle == ~isLoading /\ ~isStreaming /\ abortControllerRef = 0

\* the controls take a next utterance: the textarea is enabled and a typed text can be submitted
AcceptsNext == ~TextareaDisabled /\ (Trim(input) # <<>> => SubmitEnabled)

\* ------------------------------------------------------------------ claims

\* C1: whenever the last frame a reading turn applied is a token frame and the last
\* entry of the message list is the one that frame wrote, the content of that entry is
\* the concatenation, in arrival order, of the token fragments received since the
\* last non-token frame of the turn.
C1_ContentIsTokensSinceLastNonToken ==
    \A r \in Turns :
        ( /\ pc[r] = "reading"
          /\ applied[r] # <<>>
          /\ Last(applied[r]).type = "token"
          /\ messages # <<>>
          /\ Last(messages).turn = r )
        => Last(messages).content = TokenRun(applied[r])

\* C2: while isStreaming is true no step starts another `/chat` request.
C2_NoSecondRequestWhileStreaming ==
    [][isStreaming => nStarted' = nStarted]_vars

\* C3: when the only turn has ended with its response read to the end, the message
\* list is the one obtained from the same frames delivered as a single chunk, so
\* it does not depend on how the transport split the bytes.
C3_ListIndependentOfChunking ==
    ( /\ nStarted = 1
      /\ pc[1] = "ended"
      /\ ~aborted[1]
      /\ SorryOf(1) = {} )
    => messages = ProcessChunk(Wire(sent[1]),
                               [messages |-> << messages[1] >>, aiContent |-> <<>>,
                                title |-> <<>>, applied |-> <<>>], 1).messages

\* C4: once a turn has read `data: [DONE]`, no chunk it reads afterwards changes
\* the message list or the conversation title.
C4_NoFrameAfterDone ==
    [][\A r \in Turns :
          (DoneRead(r) /\ ReadsChunk(r)) => (messages' = messages /\ title' = title)]_vars

\* C5: a turn that has read `data: [DONE]` has stopped reading its response, and
\* unless another turn is in flight isStreaming and isLoading are false.
C5_DoneEndsStreaming ==
    \A r \in Turns :
        DoneRead(r) =>
            /\ pc[r] = "ended"
            /\ (\A q \in Turns \ {r} : ~InFlight(q)) => (~isStreaming /\ ~isLoading)

\* C6: once a turn has applied an auth_required frame, no chunk it reads
\* afterwards changes the message list.
C6_NoFrameAfterAuthRequired ==
    [][\A r \in Turns : (AuthRead(r) /\ ReadsChunk(r)) => messages' = messages]_vars

\* C7: once a turn is cancelled, its handler reads and applies no further frame,
\* the step that settles it leaves the message list as it is (no error entry, no
\* apology), the turn is never in flight again, and a request is started only by
\* a send of the text in the input.
C7_NothingAfterCancel ==
    [][\A r \in Turns :
          aborted[r] =>
             /\ aborted'[r]
             /\ applied'[r] = applied[r]
             /\ ~ReadsChunk(r)
             /\ ~InFlight(r)'
             /\ pc'[r] # pc[r] => (pc'[r] = "ended" /\ messages' = messages)
             /\ nStarted' # nStarted => (Trim(input) # <<>> /\ input' = <<>>)]_vars

\* C7 witness: a turn cancelled in the middle of its stream has been settled.
C7_Witness ==
    \E r \in Turns : aborted[r] /\ pc[r] = "ended" /\ applied[r] # <<>> /\ net[r] # <<>>

\* C8 as stated: a turn cancelled before any token frame was received has no
\* assistant entry of type 'message' in the message list.
C8_NoNarrationIfCancelledBeforeToken ==
    \A r \in Turns :
        (aborted[r] /\ ~Applied(r, {"token"})) => NarrationOf(r) = {}

\* C8 amended: a turn cancelled before any token frame and any question frame was
\* received has no assistant entry of type 'message' in the message list.
C8_NoNarrationIfCancelledBeforeTokenOrQuestion ==
    \A r \in Turns :
        (aborted[r] /\ ~Applied(r, {"token", "question"})) => NarrationOf(r) = {}

\* C8 witness: a turn that had applied frames, none of them a token or a question,
\* was cancelled and settled, while the other turn has narration on the list.
C8_Witness ==
    \E r \in Turns :
        /\ aborted[r] /\ pc[r] = "ended"
        /\ applied[r] # <<>>
        /\ ~Applied(r, {"token", "question"})
        /\ \E q \in Turns \ {r} : NarrationOf(q) # {}

\* C9: a chunk in which a turn applies an auth_required frame leaves, as the last
\* entry of the list, an assistant entry of type 'auth_required' with the server
\* name, the instructions and the target key of the frame; the chunk adds no
\* generic failure message and no more 'error' entries than it has error frames.
C9_AuthRequiredIsNotAnError ==
    [][\A r \in Turns :
          ( /\ Len(applied'[r]) > Len(applied[r])
            /\ Last(applied'[r]).type = "auth_required" )
          => LET ev == Last(applied'[r])
                 m == Last(messages')
                 new == SubSeq(applied'[r], Len(applied[r]) + 1, Len(applied'[r]))
             IN /\ m.role = "assistant"
                /\ m.type = "auth_required"
                /\ m.turn = r
                /\ m.content = ev.auth_config.instructions
                /\ m.auth_config.server_name = ev.server_name
                /\ m.auth_config.instructions = ev.auth_config.instructions
                /\ m.auth_config.target_env_var = ev.auth_config.target_env_var
                /\ Len(SelectSeq(messages', IsSorry)) <= Len(SelectSeq(messages, IsSorry))
                /\ Len(SelectSeq(messages', IsErrorEntry))
                      <= Len(SelectSeq(messages, IsErrorEntry)) + Len(SelectSeq(new, IsErrorFrame))]_vars

\* C9 witness: the last frame a turn applied is auth_required and the prompt is shown.
C9_Witness ==
    \E r \in Turns :
        /\ applied[r] # <<>>
        /\ Last(applied[r]).type = "auth_required"
        /\ Last(messages).type = "auth_required"
        /\ Last(messages).auth_config.server_name = "srv"

PendingPrompts == { i \in 1..Len(messages) : Mounted(i) /\ ~PromptAt(i).isSuccess }

\* the indices that show a resolved AuthPrompt
ResolvedPrompts == { i \in 1..Len(messages) : Mounted(i) /\ PromptAt(i).isSuccess }

\* the token-paste prompts: authType is not 'oauth'
TokenPastePrompts == { i \in 1..Len(messages) : Mounted(i) /\ authType(i) # "oauth" }

\* the prompts in OAuth mode
OAuthPrompts == { i \in 1..Len(messages) : Mounted(i) /\ authType(i) = "oauth" }

\* the step answers the submit request of prompt i, successfully or not
SubmitAnswered(i) == PromptAt(i).req # NoRequest /\ PromptAt(i)'.req = NoRequest

\* the step commits the credential write of the submit request of prompt i
SubmitCommitted(i) ==
    /\ SubmitAnswered(i)
    /\ writes' = Append(writes, Write(PromptAt(i).req.server_name, PromptAt(i).req.token_name,
                                       PromptAt(i).req.token, PromptAt(i).sentAt))

\* the step is a submit of the form of prompt i by the user
UserSubmits(i) ==
    /\ FormShown(i)
    /\ ~PromptAt(i).isSubmitting
    /\ Trim(PromptAt(i).token) # <<>>
    /\ PromptAt(i)'.isSubmitting

\* the utterance of the turn that wrote entry i
UtteranceOf(i) ==
    LET us == { j \in 1..Len(messages) : messages[j].role = "user" /\ messages[j].turn = messages[i].turn }
    IN IF us = {} THEN <<>> ELSE messages[CHOOSE j \in us : TRUE].content

\* the step starts a fresh /chat turn for utterance u
StartsFreshChat(u) ==
    /\ nStarted' = nStarted + 1
    /\ Last(messages').role = "user"
    /\ Last(messages').content = u

\* C11: the message list holds at most one auth prompt that is still unresolved.
C11_AtMostOnePendingChallenge == Cardinality(PendingPrompts) <= 1

\* C12: a token-paste prompt becomes Resolved in a step exactly when that step is
\* the successful return of a submit request carrying the prompt's provider name
\* and target key (the step that commits that write to the store).
C12_ResolvedIffSubmitSucceeded ==
    [][\A i \in TokenPastePrompts :
          /\ (~PromptAt(i).isSuccess /\ PromptAt(i)'.isSuccess)
                => /\ SubmitCommitted(i)
                   /\ PromptAt(i).req.server_name = serverName(i)
                   /\ PromptAt(i).req.token_name = targetEnvVar(i)
          /\ SubmitCommitted(i) => PromptAt(i)'.isSuccess]_vars

\* C12 witness: a token-paste prompt is Resolved and the store holds the trimmed token
\* under the provider and the target key of the prompt.
C12_Witness ==
    \E i \in TokenPastePrompts :
        /\ PromptAt(i).isSuccess
        /\ store[serverName(i)][targetEnvVar(i)] = <<"k">>

\* C13: the step in which a submit request fails leaves the prompt with isSuccess
\* false, the failure reason as error and isSubmitting false, and sends nothing;
\* a request is sent only in a step in which the user submits the form.
C13_RejectedSubmitStaysPending ==
    [][\A i \in TokenPastePrompts :
          /\ (SubmitAnswered(i) /\ ~SubmitCommitted(i))
                => /\ ~PromptAt(i)'.isSuccess
                   /\ PromptAt(i)'.error = SaveFailed
                   /\ ~PromptAt(i)'.isSubmitting
                   /\ PromptAt(i)'.submits = PromptAt(i).submits
          /\ PromptAt(i)'.submits # PromptAt(i).submits => UserSubmits(i)]_vars

\* C13 witness: a prompt whose first submit failed shows the failure reason, is
\* still Pending and has sent exactly that one request.
C13_Witness ==
    \E i \in TokenPastePrompts :
        /\ PromptAt(i).error = SaveFailed
        /\ ~PromptAt(i).isSuccess
        /\ PromptAt(i).submits = 1
        /\ PromptAt(i).req = NoRequest

\* C14: a Resolved prompt stays Resolved, and no step sends a submit request from
\* it, registers an OAuth listener for it or leaves a request of it in flight.
C14_ResolvedIsFinal ==
    [][\A i \in ResolvedPrompts :
          /\ Mounted(i)'
          /\ PromptAt(i)'.isSuccess
          /\ PromptAt(i)'.submits = PromptAt(i).submits
          /\ PromptAt(i)'.handlers \subseteq PromptAt(i).handlers
          /\ PromptAt(i)'.req = NoRequest]_vars

\* C14 witness: a token-paste prompt and an OAuth prompt are both Resolved, and the
\* user went on to a later turn.
C14_Witness ==
    /\ \E i \in ResolvedPrompts : authType(i) = "oauth" /\ PromptAt(i).by = serverName(i)
    /\ \E i \in ResolvedPrompts : authType(i) # "oauth" /\ i < Len(messages)

\* C15: a Resolved prompt in OAuth mode was resolved by the completion of the
\* authorization of its own provider.
C15_OAuthResolvedByOwnCallback ==
    \A i \in OAuthPrompts : PromptAt(i).isSuccess => PromptAt(i).by = serverName(i)

\* C18: once the prompt a turn halted on is Resolved, no step starts a fresh
\* /chat turn for the utterance of that turn.
C18_ResumeIsNotAFreshTurn ==
    [][\A i \in ResolvedPrompts : ~StartsFreshChat(UtteranceOf(i))]_vars

\* the message list the scenario is to leave for a first turn ending with frame e
ScenarioList(e) ==
    << messages[1],
       Msg("intent", <<"n">>, "intent", NoEntryAuth, 1),
       Msg("plan", <<"p">>, "plan", NoEntryAuth, 1),
       Msg("assistant", <<"4">>, "message", NoEntryAuth, 1),
       IF e.type = "auth_required" THEN AuthEntry(e, 1)
       ELSE Msg("assistant", e.content, "thought", NoEntryAuth, 1) >>

\* C17: when the first turn has received the whole scenario, every frame of it
\* recognised, and has ended, the message list is the user utterance, the intent
\* entry, the plan entry, one assistant message "4" and the thought or auth prompt.
C17_ScenarioList ==
    \A e \in ScenarioEnds :
        ( /\ nStarted = 1
          /\ pc[1] = "ended"
          /\ sent[1] = ScenarioScript(e)
          /\ applied[1] = sent[1] )
        => messages = ScenarioList(e)

\* the entry kinds that are no narration
FixedKinds == { "thought", "intent", "plan", "error", "auth_required" }

\* C20: no step modifies, removes or moves an entry of kind thought, intent, plan,
\* error or auth_required that is on the message list.
C20_NonNarrationEntriesImmutable ==
    [][\A i \in 1..Len(messages) :
          messages[i].type \in FixedKinds
             => (i <= Len(messages') /\ messages'[i] = messages[i])]_vars

\* ---------------------------------------------- vocabulary, credentials
\* the secret values that have been saved to the store
SavedSecrets == { writes[j].value : j \in 1..Len(writes) } \ { Mask }

\* the positions of the committed writes of (provider, key)
WritesOf(p, k) == { j \in 1..Len(writes) : writes[j].provider = p /\ writes[j].key = k }

\* the value of the last committed write of (provider, key)
LastCommitted(p, k) ==
    IF WritesOf(p, k) = {} THEN NoValue
    ELSE writes[CHOOSE j \in WritesOf(p, k) : \A i \in WritesOf(p, k) : i <= j].value

\* the writes at positions a < b were in flight together: b left before a was committed
Concurrent(a, b) == a < b /\ writes[b].sentAt < a

WellFormed(f) == f.type # "invalid" /\ ~(f.type = "auth_required" /\ f.auth_config = NoAuth)

\* C22: when a turn has ended, the text of every question frame it applied is the
\* content of an assistant entry of type 'message' of the list.
C22_QuestionStaysDisplayed ==
    \A r \in Turns :
        pc[r] = "ended" =>
            \A i \in 1..Len(applied[r]) :
                applied[r][i].type = "question" =>
                    \E j \in 1..Len(messages) :
                        /\ messages[j].role = "assistant"
                        /\ messages[j].type = "message"
                        /\ messages[j].content = applied[r][i].content

\* C23: while the request of a turn is in flight, abortControllerRef holds the
\* controller of that turn.
C23_InFlightRequestIsCancellable ==
    \A r \in Turns : InFlight(r) => abortControllerRef = r

\* C28: malformed frames are skipped without effect: the interface stays mounted,
\* no failure message is added, and when the turn has ended every well-formed frame
\* of the response has been applied.
C28_MalformedFrameSkipped ==
    /\ app.mounted
    /\ \A j \in 1..Len(messages) : messages[j].content # Sorry
    /\ \A r \in Turns :
          pc[r] = "ended" => SelectSeq(applied[r], WellFormed) = SelectSeq(sent[r], WellFormed)

\* ----------------------------------------------------- claims, the sidebar
\* C21: a title frame of a turn sent to conversation id changes the title of that
\* conversation only: the other entries of the list, its membership and order, the
\* selected conversation and the messages of App and of ChatArea stay as they were.
C21_TitleFrameChangesOneTitle ==
    [][\A id \in 1..3 :
          titleFrame(id) =>
              /\ Len(app.conversations') = Len(app.conversations)
              /\ \A i \in 1..Len(app.conversations) :
                    IF app.conversations[i].id = id
                    THEN [app.conversations'[i] EXCEPT !.title = <<>>] =
                         [app.conversations[i] EXCEPT !.title = <<>>]
                    ELSE app.conversations'[i] = app.conversations[i]
              /\ app.currentConversationId' = app.currentConversationId
              /\ app.messages' = app.messages
              /\ messages' = messages]_vars

\* C21 witness: the title frame of a turn arrived after the user had selected another
\* conversation, and the list holds the titled conversation and an untitled one.
C21_Witness ==
    /\ api.titled.id # 0
    /\ api.titled.selected \notin { 0, api.titled.id }
    /\ \E i, j \in 1..Len(app.conversations) :
          /\ app.conversations[i].id = api.titled.id
          /\ app.conversations[i].title = <<"T">>
          /\ app.conversations[j].title = <<"x">>

\* C25: when a confirmed delete of conversation c succeeds, c is not in the list and
\* is not the selected conversation; a failed request and a declined confirmation
\* leave App as it was.
C25_DeletedConversationIsGone ==
    [][\A d \in api.deleting :
          /\ deleteConversationReturns(d, TRUE) =>
                /\ \A i \in 1..Len(app.conversations') : app.conversations'[i].id # d.id
                /\ app.currentConversationId' # d.id
          /\ deleteConversationReturns(d, FALSE) => app' = app]_vars

\* C26: when App is not loading history and a conversation is selected, App.messages
\* is the history of that conversation or its greeting.
C26_MessagesOfSelectedConversation ==
    (~app.isLoadingHistory /\ app.currentConversationId # 0) =>
        app.messages \in { Shown("history", app.currentConversationId),
                           Shown("greeting", app.currentConversationId) }

\* C30: the conversation list is ordered by validTime, the greatest first.
C30_ListNewestFirst ==
    \A i, j \in 1..Len(app.conversations) :
        i < j => validTime(app.conversations[i]) >= validTime(app.conversations[j])

\* C30 witness: a list the sort ordered (the server answers in any order), after
\* a new chat, a title frame and a successful delete: two conversations with
\* different times are left, one of them titled.
C30_Witness ==
    /\ Len(app.conversations) = 2
    /\ validTime(app.conversations[1]) > validTime(app.conversations[2])
    /\ \E i \in 1..2 : app.conversations[i].title = <<"T">>
    /\ api.titled.id # 0
    /\ api.n.deletes = 1 /\ api.deleting = {}
    /\ DOMAIN api.server = { app.conversations[1].id, app.conversations[2].id }
    /\ 3 \in DOMAIN api.server


\* ------------------------------------------- claims, session and preferences
\* C27: from logout to the next successful login the axios client has no default
\* Authorization header, and the login request carries none.
C27_NoTokenAfterLogout ==
    /\ app.token = NoToken => api.header = ""
    /\ api.login.Authorization = ""

\* C29: when the saved font size is the value of one of the five options, the root
\* font size is the size of that option: Extra Small 12px, Small 14px, Medium 16px,
\* Large 18px, Extra Large 20px.
C29_SavedFontSizeIsApplied ==
    \A s \in SIZES :
        app.fontSize = s.id =>
            app.rootFontSize = (CASE s.name = "Extra Small" -> "12px"
                                  [] s.name = "Small" -> "14px"
                                  [] s.name = "Medium (Default)" -> "16px"
                                  [] s.name = "Large" -> "18px"
                                  [] s.name = "Extra Large" -> "20px")

\* C24: while the modal stays open after a successful save of a server's page, the
\* credential inputs the page shows for that server, before the user types into
\* them again, hold the values saved.
C24_SettingsShowWhatWasSaved ==
    (ToolPageShown /\ modal.activePage \in DOMAIN modal.saved /\ modal.typed = {}) =>
        modal.envVars = modal.saved[modal.activePage]

====
